---- MODULE Spec2Model ----
(***************************************************************************)
(* jsonrpc2-ws: JSON-RPC 2.0 over WebSocket.                               *)
(*                                                                         *)
(* One client (Client, src/src/server.ts:459-693) talks to one server      *)
(* (Server, src/src/server.ts:48-311) over a sequence of WebSocket         *)
(* connections.  The server decodes frames with its own                    *)
(* _wsMessageHandler/_processCall; the client decodes frames with          *)
(* MessageHandler (src/src/Socket.ts:48-201).                              *)
(***************************************************************************)
EXTENDS Integers, Sequences, FiniteSets, TLC

\* ------------------------------------------------------------ bounds ----
\* number of calls application code makes to connect(), disconnect(), call()
\* and to a session's close()
MaxOps == 3
\* number of WebSocket objects the client may create
MaxSock == 3
\* number of frames application code injects (raw send / notify), per run
MaxInject == 1
\* number of notifications of the server the client has yet to finish with
MaxInFlight == 1
\* number of ping intervals a session is followed for
MaxTicks == 2

\* ------------------------------------------------- program constants ----
ParseError == -32700
InvalidRequest == -32600
MethodNotFound == -32601
InvalidParams == -32602
InternalError == -32603
ServerError == -32000

\* options.jsonrpcVersionCheck: the Server defaults it to STRICT; the Client's
\* ConfigDefaults do not set it, so its MessageHandler sees undefined
serverVersionCheck == "STRICT"
clientVersionCheck == "undefined"

\* config.reconnectionAttempts of the client under study
reconnectionAttempts == 1

\* the method maps: "myMethod" is registered on both endpoints, "other" on none
MethodNames == {"myMethod", "other"}
serverMethods == {"myMethod"}
clientMethods == {"myMethod"}

\* ------------------------------------------------------- envelopes ------
\* A JSON value that is one item of a frame.  Members are kept by kind:
\*   "absent" : the key is not there     "undef" : key with value undefined
\*                                                 (in memory only)
\*   t      : JSON type of the item ("obj", "num", "null")
\*   ver    : jsonrpc member ("absent", "2.0", "1.0")
\*   idk    : kind of the id member ("absent", "null", "num", "str"), idn its value
\*   method : "absent", "empty" (""), "nonstr" (a number), or a method name
\*   params : "absent", "undef", "obj", "arr", "null", "prim"
\*   res    : result member ("absent", "null", "obj")
\*   errk   : kind of the error member ("absent", "undef", "null", "obj"),
\*            errc/errm/errd its code, message and data
\*   src    : history only: index of the batch item this response answers
Blank ==
    [t |-> "obj", ver |-> "absent", idk |-> "absent", idn |-> 0,
     method |-> "absent", params |-> "absent", res |-> "absent",
     errk |-> "absent", errc |-> 0, errm |-> "", errd |-> "absent", src |-> 0]

Request(m, p, k, n) ==
    [Blank EXCEPT !.ver = "2.0", !.method = m, !.params = p, !.idk = k, !.idn = n]

Notification(m, p) ==
    [Blank EXCEPT !.ver = "2.0", !.method = m, !.params = p]

ErrorResponse(code, msg, k, n) ==
    [Blank EXCEPT !.ver = "2.0", !.errk = "obj", !.errc = code, !.errm = msg,
                  !.idk = k, !.idn = n]

SuccessResponse(v, k, n) ==
    [Blank EXCEPT !.ver = "2.0", !.res = v, !.idk = k, !.idn = n]

Primitive(ty) == [Blank EXCEPT !.t = ty]

\* JSON.stringify drops members whose value is undefined
Stringify(o) ==
    [o EXCEPT !.params = IF @ = "undef" THEN "absent" ELSE @,
              !.errk = IF @ = "undef" THEN "absent" ELSE @,
              !.res = IF @ = "undef" THEN "absent" ELSE @]

\* A frame on the wire: kind "garbage" (not JSON), "single" or "batch"
Frame(k, its) == [kind |-> k, items |-> its]
NoFrame == Frame("none", << >>)

\* ------------------------------------------------------ common.ts -------
\* a faulty test: no envelope is taken for a response
isResponseNever(call) == FALSE

isResponse(call) ==
    call.idk # "absent" /\ (call.res # "absent" \/ call.errk # "absent")

isSuccessResponse(response) ==
    response.res # "absent" /\ response.idk # "null"

errorCodeMap(code) ==
    CASE code = ParseError -> "Parse error"
      [] code = InvalidRequest -> "Invalid Request"
      [] code = MethodNotFound -> "Method not found"
      [] code = InvalidParams -> "Invalid params"
      [] code = InternalError -> "Internal error"
      [] code = ServerError -> "Server error"
      [] OTHER -> "Server error"

\* message and data are "undef" when the argument is omitted, "null" for null
createError(code, message, data) ==
    [code |-> code,
     message |-> IF message \in {"undef", "null", ""} THEN errorCodeMap(code) ELSE message,
     data |-> IF data = "undef" THEN "absent" ELSE data]

WithError(res, e) ==
    [res EXCEPT !.errk = "obj", !.errc = e.code, !.errm = e.message, !.errd = e.data]

\* const res = { jsonrpc: "2.0", id: reqId === undefined ? null : reqId }
NewRes(call) ==
    [Blank EXCEPT !.ver = "2.0",
                  !.idk = IF call.t # "obj" \/ call.idk = "absent" THEN "null" ELSE call.idk,
                  !.idn = IF call.t # "obj" \/ call.idk = "absent" THEN 0 ELSE call.idn]

VersionRejectedUnlessIgnore(mode, call) ==
    call.ver # "2.0" /\ mode \in {"STRICT", "LOOSE"}

VersionRejected(mode, call) ==
    call.ver # "2.0" /\
        (mode = "STRICT" \/ (mode = "LOOSE" /\ call.ver # "absent"))

Event(n, it) == [name |-> n, item |-> it]

\* what one _processCall does up to its first suspension:
\*   out = "reply"  : returns res             out = "none"  : returns nothing
\*   out = "invoke" : the handler was called  out = "crash" : threw
Step(o, r, e) == [out |-> o, res |-> r, ev |-> e]

\* ------------------------------------- MessageHandler._processCall ------
\* the error codes of an id-null error response that are not passed on as
\* notification_error
\* a faulty test: InvalidRequest is passed on as well
absorbsParseErrorOnly(code) == code = ParseError

absorbed(code) == code = ParseError \/ code = InvalidRequest

MessageHandler_processCall(call) ==
    LET res == NewRes(call) IN
    IF call.t = "null" THEN Step("crash", res, << >>)
    ELSE IF call.t # "obj" THEN
        Step("reply", WithError(res, createError(InvalidRequest, "undef", "undef")), << >>)
    ELSE IF VersionRejected(clientVersionCheck, call) THEN
        Step("reply", WithError(res, createError(InvalidRequest, "null", "Invalid JSON-RPC Version")), << >>)
    ELSE IF isResponse(call) THEN
        IF call.idk # "null" THEN
            Step("none", res, << Event("response", call), Event("method_response", call) >>)
        ELSE IF call.errk \in {"absent", "undef", "null"} THEN
            Step("reply", WithError(res, createError(InvalidRequest, "undef", "undef")),
                 << Event("response", call) >>)
        ELSE IF absorbed(call.errc) THEN
            Step("none", res, << Event("response", call), Event("error_response", call) >>)
        ELSE
            Step("none", res, << Event("response", call), Event("error_response", call),
                                 Event("notification_error", call) >>)
    ELSE IF call.method \in {"absent", "empty"} THEN
        Step("reply", WithError(res, createError(MethodNotFound, "null", "Method not specified")), << >>)
    ELSE IF call.method = "nonstr" THEN
        Step("reply", WithError(res, createError(InvalidRequest, "null", "Invalid type of method name")), << >>)
    ELSE IF call.params \notin {"absent", "obj", "arr"} THEN
        Step("reply", WithError(res, createError(InvalidRequest, "undef", "undef")), << >>)
    ELSE IF call.method \notin clientMethods THEN
        Step("reply", WithError(res, createError(MethodNotFound, "undef", "undef")), << >>)
    ELSE Step("invoke", res, << >>)

\* ---------------------------------------------- Server._processCall -----
\* mode: this.options.jsonrpcVersionCheck
Server_processCall(mode, call) ==
    LET res == NewRes(call) IN
    IF call.t = "null" THEN Step("crash", res, << >>)
    ELSE IF call.t # "obj" THEN
        Step("reply", WithError(res, createError(InvalidRequest, "undef", "undef")), << >>)
    ELSE IF VersionRejected(mode, call) THEN
        Step("reply", WithError(res, createError(InvalidRequest, "null", "Invalid JSON-RPC Version")), << >>)
    ELSE IF call.method \in {"absent", "empty"} THEN
        Step("reply", WithError(res, createError(InvalidParams, "null", "Method not specified")), << >>)
    ELSE IF call.method = "nonstr" THEN
        Step("reply", WithError(res, createError(InvalidRequest, "null", "Invalid type of method name")), << >>)
    ELSE IF call.params \notin {"obj", "arr"} THEN
        Step("reply", WithError(res, createError(InvalidRequest, "undef", "undef")), << >>)
    ELSE IF call.method \notin serverMethods THEN
        Step("reply", WithError(res, createError(MethodNotFound, "undef", "undef")), << >>)
    ELSE Step("invoke", res, << >>)

\* the two engines: side "client" is the MessageHandler of the Client; any
\* other side is the Server, named by its jsonrpcVersionCheck
processCall(side, call) ==
    IF side = "client" THEN MessageHandler_processCall(call)
    ELSE Server_processCall(side, call)

\* ------------------------------------------ handler completion ----------
\* how a registered handler ends: what it returns or throws
Outcomes == {"ret_obj", "ret_undef", "ret_zero", "throw_Error", "throw_rpc", "throw_undef"}

\* what the handler returned: an object, undefined or the number 0
Returned_value(outcome) ==
    CASE outcome = "ret_obj" -> "obj"
      [] outcome = "ret_undef" -> "undef"
      [] outcome = "ret_zero" -> "zero"

\* value || null
OrNull(v) == IF v \in {"undef", "null", "zero", "false", "empty"} THEN "null" ELSE v

\* the try/catch around the handler call; "none" when nothing is returned
HandlerResultFor(isNotification, res, outcome) ==
    IF isNotification THEN Step("none", res, << >>)
    ELSE CASE outcome \in {"ret_obj", "ret_undef", "ret_zero"} ->
                Step("reply", [res EXCEPT !.res = OrNull(Returned_value(outcome))], << >>)
           [] outcome = "throw_Error" ->
                Step("reply", WithError(res, createError(ServerError, "Error", "boom")), << >>)
           [] outcome = "throw_rpc" ->
                Step("reply", WithError(res, createError(InvalidParams, "undef", "undef")), << >>)
           [] OTHER -> Step("reply", [res EXCEPT !.errk = "undef"], << >>)

\* a faulty try/catch: the result of a notification's handler is sent as well
handlerAlwaysReplies(call, outcome) == HandlerResultFor(FALSE, NewRes(call), outcome)

HandlerResult(call, outcome) ==
    HandlerResultFor(call.idk = "absent", NewRes(call), outcome)

\* ------------------------------------------- the for-await loop ---------
\* a faulty push: unshift, the newest response comes first
pushFront(responses, res, idx) == << [res EXCEPT !.src = idx] >> \o responses

\* responses.push(res)
push(responses, res, idx) == Append(responses, [res EXCEPT !.src = idx])

\* if (res) responses.push(res)
pushIf(responses, step, idx) ==
    IF step.out = "reply" THEN push(responses, step.res, idx) ELSE responses

Loop(st, idx, responses, ev) == [st |-> st, idx |-> idx, responses |-> responses, ev |-> ev]

\* for (const call of calls) { res = await _processCall(call); if (res) push }
\* runs until the frame is finished ("done"), a handler has been invoked and
\* is awaited ("await"), or _processCall threw ("crash"); Advance is the loop
\* body once _processCall(items[idx]) has come to r
RECURSIVE RunLoop(_, _, _, _, _)
RECURSIVE Advance(_, _, _, _, _, _)
RunLoop(side, items, idx, responses, ev) ==
    IF idx > Len(items) THEN Loop("done", idx, responses, ev)
    ELSE Advance(side, items, idx, responses, ev, processCall(side, items[idx]))

Advance(side, items, idx, responses, ev, r) ==
    CASE r.out = "crash" -> Loop("crash", idx, responses, ev \o r.ev)
      [] r.out = "invoke" -> Loop("await", idx, responses, ev \o r.ev)
      [] OTHER -> RunLoop(side, items, idx + 1, pushIf(responses, r, idx), ev \o r.ev)

\* a faulty reply: a batch answered by one response is sent without the array
unwrapsSingle(isArray, responses) ==
    IF responses = << >> THEN NoFrame
    ELSE IF isArray /\ Len(responses) > 1
    THEN Frame("batch", [i \in 1..Len(responses) |-> Stringify(responses[i])])
    ELSE Frame("single", << Stringify(responses[1]) >>)

\* JSON.stringify(isArray ? responses : responses[0]), or nothing to send
Reply(isArray, responses) ==
    IF responses = << >> THEN NoFrame
    ELSE IF isArray THEN Frame("batch", [i \in 1..Len(responses) |-> Stringify(responses[i])])
    ELSE Frame("single", << Stringify(responses[1]) >>)

Task(isArray, items, idx, responses) ==
    [isArray |-> isArray, items |-> items, idx |-> idx, responses |-> responses]

Handled(st, task, ev, reply) == [st |-> st, task |-> task, ev |-> ev, reply |-> reply]

\* what follows the loop: the reply is written once the loop is done
AfterLoop(isArray, items, r) ==
    Handled(r.st, Task(isArray, items, r.idx, r.responses), r.ev,
            IF r.st = "done" THEN Reply(isArray, r.responses) ELSE NoFrame)

\* a faulty rejection: the frame is dropped without a reply
RejectedSilently(isArray, code, data) ==
    Handled("done", Task(isArray, << >>, 1, << >>), << >>, NoFrame)

\* the reply to a frame that is not JSON, or is an empty array
Rejected(isArray, code, data) ==
    Handled("done", Task(isArray, << >>, 1, << >>), << >>,
        Frame("single", << Stringify(WithError([Blank EXCEPT !.ver = "2.0", !.idk = "null"],
                                               createError(code, "null", data))) >>))

\* handleMessage / _wsMessageHandler from the "message" event to the first
\* suspension
handleMessage(side, frame) ==
    IF frame.kind = "garbage" THEN Rejected(FALSE, ParseError, "Invalid JSON")
    ELSE IF frame.kind = "batch" /\ frame.items = << >>
    THEN Rejected(TRUE, InvalidRequest, "Empty Array")
    ELSE AfterLoop(frame.kind = "batch", frame.items,
                   RunLoop(side, frame.items, 1, << >>, << >>))

\* the continuation of the loop once the awaited handler of items[idx] has
\* returned or thrown
resume(side, task, outcome) ==
    AfterLoop(task.isArray, task.items,
              RunLoop(side, task.items, task.idx + 1,
                      pushIf(task.responses, HandlerResult(task.items[task.idx], outcome),
                             task.idx),
                      << >>))

\* ------------------------------------------------------- state ----------
Socks == 1..MaxSock
CallIds == 0..(MaxOps - 1)

VARIABLES
    client,   \* the Client object and the WebSocket objects it created
    server,   \* the Server object and its sessions
    c2s,      \* frames in flight, client to server, per connection
    s2c,      \* frames in flight, server to client, per connection
    ops,      \* calls application code has made to the lifecycle API and call()
    injected, \* history: the frames application code sent raw or by notify()
    last,     \* history: the frame or handler the last step handled, if any
    hist      \* whether the history of the last step (ev, mhEv, out, last) is kept

vars == << client, server, c2s, s2c, ops, injected, last, hist >>

\* a caller's promise: st is "none" (not issued), "pending", "resolved",
\* "rejected", "timeout" (rejected by the timer) or "threw" (call() threw)
Future(st, val, code) == [st |-> st, val |-> val, code |-> code]

\* client fields (Client, server.ts:464-471) and what hangs off them:
\*   ws             _ws: 0 for null, else the socket
\*   n              WebSocket objects created so far
\*   state          readyState per socket ("NONE" before it exists)
\*   lis            listeners attached per socket: "conn" (those connect()
\*                  adds), "reconn" (close -> reconnect()), "rcwait" (the
\*                  once-listeners of reconnect()), "disc" (disconnect()'s)
\*   reconnecting, skip, attempts, reqId
\*   sleepTimer     _reconnectionSleepTimer is set (it then names a live timer)
\*   sleepers       reconnect() invocations asleep on a live backoff timer
\*   waiters        reconnect() invocations waiting for the open or close of
\*                  the socket that carries "rcwait"
\*   dwait          the sockets for whose "close" a promise returned by
\*                  disconnect() is waiting
\*   handlers       keys of _responseHandlers
\*   timers         ids whose methodCallTimeout timer is scheduled
\*   future         the promise call() returned, per id
\*   tasks          handleMessage invocations suspended on a handler
\*   reconnection   config.reconnection
\*   ev             events the Client emitted in the last step
\*   mhEv           events its MessageHandler emitted in the last step
\*   out            frames written to a socket in the last step
\*   got, sentOn    history: method_response events per id, and the socket
\*                  each request was written to (0: never written)
\*   dlis           the event, if any, on which a listener added by
\*                  application code calls disconnect() ("none": no such)
\*   announced      history: the attempt number "reconnecting" was last emitted
\*                  with since the backoff was reset (0: not emitted)
\*   disc           history: how many times disconnect() has been invoked
\*                  since connect() was last called
InitClient(reconnection) ==
    [ws |-> 0, n |-> 0,
     state |-> [s \in Socks |-> "NONE"],
     lis |-> [s \in Socks |-> {}],
     reconnecting |-> FALSE, skip |-> FALSE, attempts |-> 0, sleepTimer |-> FALSE,
     sleepers |-> 0, waiters |-> 0, dwait |-> {},
     reqId |-> 0, handlers |-> {}, timers |-> {},
     future |-> [i \in CallIds |-> Future("none", "", 0)],
     tasks |-> << >>,
     reconnection |-> reconnection,
     ev |-> << >>, mhEv |-> << >>, out |-> << >>,
     got |-> [i \in CallIds |-> 0],
     sentOn |-> [i \in CallIds |-> 0],
     dlis |-> "none", disc |-> 0, announced |-> 0]

\* the state a step starts from: nothing emitted or written yet
Fresh(w) == [w EXCEPT !.ev = << >>, !.mhEv = << >>, !.out = << >>]

\* ------------------------------------------------ Client.disconnect -----
\* for (const [timer] of this._responseHandlers) clearTimeout(timer):
\* iterating a Map yields [key, value], so what is passed to clearTimeout is
\* the request id, not the timer: no timer of a pending call is cancelled
clearedByDisconnect(w) == {}

\* a disconnect() that flips _skipReconnection instead of setting it
disconnectTogglesSkip(w) ==
    LET w1 == [w EXCEPT !.skip = ~@, !.reconnecting = FALSE, !.attempts = 0,
                        !.handlers = {},
                        !.sleepTimer = FALSE,
                        !.sleepers = IF w.sleepTimer THEN @ - 1 ELSE @,
                        !.disc = @ + 1, !.announced = 0] IN
    IF w1.ws = 0 THEN w1
    ELSE LET s == w1.ws IN
         [w1 EXCEPT !.state[s] = IF @ \in {"OPEN", "CONNECTING"} THEN "CLOSING" ELSE @,
                    !.ws = 0,
                    !.lis[s] = {},
                    !.waiters = 0]

\* disconnect(): synchronous to the end
disconnect(w) ==
    LET w1 == [w EXCEPT !.skip = TRUE, !.reconnecting = FALSE, !.attempts = 0,
                        !.timers = @ \ clearedByDisconnect(w),
                        !.handlers = {},
                        !.sleepTimer = FALSE,
                        !.sleepers = IF w.sleepTimer THEN @ - 1 ELSE @,
                        !.disc = @ + 1, !.announced = 0] IN
    IF w1.ws = 0 THEN w1
    ELSE LET s == w1.ws
             \* ws.once("close", () => resolve()) when OPEN or CONNECTING
             w2 == IF w1.state[s] \in {"OPEN", "CONNECTING"}
                   THEN [w1 EXCEPT !.lis[s] = @ \cup {"disc"}, !.dwait = @ \cup {s}]
                   ELSE w1 IN
         \* ws.close(); this._ws = null; ws.removeAllListeners()
         [w2 EXCEPT !.state[s] = IF @ \in {"OPEN", "CONNECTING"} THEN "CLOSING" ELSE @,
                    !.ws = 0,
                    !.lis[s] = {},
                    !.waiters = 0]

\* ------------------------------------------------ events ----------------
NoItem == Blank

\* this.emit(name, ...): the listeners run before emit returns, among them
\* the one of application code that calls disconnect()
emitted(w, name, item) ==
    [w EXCEPT !.ev = Append(@, Event(name, item)),
              !.announced = IF name = "reconnecting" THEN item.idn ELSE @]

emit(w, name, item) ==
    IF name = w.dlis THEN disconnect(emitted(w, name, item))
    ELSE emitted(w, name, item)

\* ------------------------------------------------ Client.connect --------
\* the rest of connect() once "connecting" has been emitted
openSocket(w, s, reconnection) ==
    [w EXCEPT !.ws = s, !.n = s,
              !.state[s] = "CONNECTING",
              !.lis[s] = IF reconnection THEN {"conn", "reconn"} ELSE {"conn"},
              !.skip = IF reconnection THEN FALSE ELSE @]

connect(w) ==
    IF w.ws # 0 THEN [w EXCEPT !.disc = 0]
    ELSE openSocket(emit([w EXCEPT !.disc = 0], "connecting", NoItem),
                    w.n + 1, w.reconnection)

\* ------------------------------------------------ Client.reconnect ------
\* a reconnect() that gives up one attempt early
reconnectGivesUpEarly(w) ==
    IF w.reconnecting \/ w.skip THEN w
    ELSE IF w.attempts >= reconnectionAttempts THEN
        disconnect(emit(w, "reconnect_failed", NoItem))
    ELSE [w EXCEPT !.attempts = @ + 1, !.reconnecting = TRUE, !.sleepTimer = TRUE,
                   !.sleepers = @ + 1]

\* reconnect() up to its first await (the backoff sleep)
reconnect(w) ==
    IF w.reconnecting \/ w.skip THEN w
    ELSE IF w.attempts > reconnectionAttempts THEN
        disconnect(emit(w, "reconnect_failed", NoItem))
    ELSE [w EXCEPT !.attempts = @ + 1, !.reconnecting = TRUE, !.sleepTimer = TRUE,
                   !.sleepers = @ + 1]

\* ------------------------------------------------ Client.send -----------
\* only called with _ws set: this._ws.readyState throws on null
send(w, frame) ==
    IF w.state[w.ws] # "OPEN" THEN w
    ELSE [w EXCEPT !.out = Append(@, << w.ws, frame >>)]

\* ------------------------------------------------ Client.call -----------
\* a faulty call(): the request id is read but not advanced
callReusesId(w, method) ==
    LET id == w.reqId IN
    IF w.ws = 0 THEN [w EXCEPT !.future[id] = Future("threw", "", 0)]
    ELSE [send(w, Frame("single", << Request(method, "obj", "num", id) >>))
             EXCEPT !.timers = @ \cup {id},
                    !.handlers = @ \cup {id},
                    !.future[id] = Future("pending", "", 0),
                    !.sentOn[id] = IF w.state[w.ws] = "OPEN" THEN w.ws ELSE 0]

call(w, method) ==
    LET id == w.reqId
        w1 == [w EXCEPT !.reqId = @ + 1] IN
    IF w1.ws = 0 THEN [w1 EXCEPT !.future[id] = Future("threw", "", 0)]
    ELSE LET w2 == send(w1, Frame("single", << Request(method, "obj", "num", id) >>)) IN
         [w2 EXCEPT !.timers = @ \cup {id},
                    !.handlers = @ \cup {id},
                    !.future[id] = Future("pending", "", 0),
                    !.sentOn[id] = IF w1.state[w1.ws] = "OPEN" THEN w1.ws ELSE 0]

\* a faulty timeout callback: it gives up every pending call, not only its own
timeoutClearsAll(w, id) ==
    [w EXCEPT !.timers = {},
              !.handlers = {},
              !.future = [j \in CallIds |->
                             IF @[j].st = "pending" THEN Future("timeout", "", 0) ELSE @[j]]]

\* the setTimeout callback of call()
callTimeout(w, id) ==
    [w EXCEPT !.timers = @ \ {id},
              !.handlers = @ \ {id},
              !.future[id] = IF @.st = "pending" THEN Future("timeout", "", 0) ELSE @]

\* ------------------------------------- Client._handleMethodResponse -----
\* a faulty completion: the future is resolved whatever the response carries
alwaysResolves(response) == Future("resolved", response.res, 0)

settle(response) ==
    IF isSuccessResponse(response) THEN Future("resolved", response.res, 0)
    ELSE Future("rejected", response.errk, response.errc)

_handleMethodResponse(w, response) ==
    IF response.idk = "str" THEN emit(w, "unkown_response", response)
    ELSE IF response.idn \notin w.handlers THEN emit(w, "unkown_response", response)
    ELSE LET id == response.idn IN
         [w EXCEPT !.handlers = @ \ {id},
                   !.timers = @ \ {id},
                   !.future[id] = IF @.st = "pending" THEN settle(response) ELSE @]

\* history: one more method_response event for the id of response
counted(w, response) ==
    IF response.idk = "num" /\ response.idn \in CallIds
    THEN [w EXCEPT !.got[response.idn] = @ + 1] ELSE w

\* the listeners of the MessageHandler events the Client constructor adds
listen(w, e) ==
    CASE e.name = "method_response" -> counted(_handleMethodResponse(w, e.item), e.item)
      [] e.name = "error_response" -> emit(w, "error_response", e.item)
      [] e.name = "notification_error" -> emit(w, "notification_error", e.item)
      [] OTHER -> w

RECURSIVE ApplyEvents(_, _)
ApplyEvents(w, evs) ==
    IF evs = << >> THEN w
    ELSE ApplyEvents(listen([w EXCEPT !.mhEv = Append(@, Head(evs))], Head(evs)), Tail(evs))

\* the Client as the socket of its MessageHandler: a reply goes through
\* Client.send, which throws when _ws is null
clientReply(w, frame) ==
    IF frame = NoFrame \/ w.ws = 0 THEN w ELSE send(w, frame)

Remove(seq, i) == [j \in 1..(Len(seq) - 1) |-> IF j < i THEN seq[j] ELSE seq[j + 1]]

\* the suspended invocations after the i-th (0: a new one) has come to h
suspended(tasks, i, h, entry) ==
    IF i = 0 THEN (IF h.st = "await" THEN Append(tasks, entry) ELSE tasks)
    ELSE IF h.st = "await" THEN [tasks EXCEPT ![i] = entry]
    ELSE Remove(tasks, i)

\* the client once its MessageHandler has come to h
clientHandled(w, i, h) ==
    clientReply([ApplyEvents(w, h.ev) EXCEPT !.tasks = suspended(@, i, h, h.task)], h.reply)

\* ws.on("message", data => this._messageHandler.handleMessage(this, data))
clientMessage(w, frame) == clientHandled(w, 0, handleMessage("client", frame))

\* the handler awaited by the i-th suspended handleMessage returns or throws
clientResume(w, i, outcome) == clientHandled(w, i, resume("client", w.tasks[i], outcome))

\* ------------------------------------- listeners on the client's ws -----
\* reconnect() resumed by "open", once for each invocation that waits:
\* const attempts = backoff.attempts; backoff.reset(); emit("reconnected")
RECURSIVE Reconnected_each(_, _)
Reconnected_each(w, k) ==
    IF k = 0 THEN w
    ELSE Reconnected_each(
             emit([w EXCEPT !.attempts = 0, !.reconnecting = FALSE, !.announced = 0],
                  "reconnected", [NoItem EXCEPT !.idn = w.attempts]),
             k - 1)

\* the catch block of reconnect(), once for each invocation that waits
RECURSIVE Rejected_each(_, _)
Rejected_each(w, k) ==
    IF k = 0 THEN w
    ELSE Rejected_each(emit(reconnect([w EXCEPT !.reconnecting = FALSE]),
                            "reconnect_error", NoItem),
                       k - 1)

\* an "open" after which reconnect() forgets to reset the backoff
onOpenKeepsAttempts(w, s) ==
    LET w1 == [w EXCEPT !.state[s] = "OPEN"]
        w2 == IF "conn" \in w.lis[s] THEN emit(w1, "connected", NoItem) ELSE w1 IN
    IF "rcwait" \in w.lis[s]
    THEN emit([w2 EXCEPT !.lis[s] = @ \ {"rcwait"}, !.waiters = 0, !.reconnecting = FALSE],
              "reconnected", [NoItem EXCEPT !.idn = w.attempts])
    ELSE w2

\* "open": connect() resumes and emits connected; reconnect() resumes,
\* resets the backoff and emits reconnected(attempts)
onOpen(w, s) ==
    LET w1 == [w EXCEPT !.state[s] = "OPEN"]
        w2 == IF "conn" \in w.lis[s] THEN emit(w1, "connected", NoItem) ELSE w1 IN
    IF "rcwait" \in w.lis[s]
    THEN Reconnected_each([w2 EXCEPT !.lis[s] = @ \ {"rcwait"}, !.waiters = 0], w.waiters)
    ELSE w2

\* "close": the listeners in the order they were added
onClose(w, s) ==
    LET w0 == [w EXCEPT !.state[s] = "CLOSED",
                        !.dwait = IF "disc" \in w.lis[s] THEN @ \ {s} ELSE @]
        w1 == IF "conn" \in w.lis[s]
              THEN [emit(emit(w0, "close", NoItem), "disconnect", NoItem) EXCEPT !.ws = 0]
              ELSE w0
        w2 == IF "reconn" \in w.lis[s] THEN reconnect(w1) ELSE w1 IN
    IF "rcwait" \in w.lis[s]
    THEN Rejected_each([w2 EXCEPT !.lis[s] = @ \ {"rcwait"}, !.waiters = 0], w.waiters)
    ELSE w2

\* "error" (the connection could not be established), followed by "close"
onError(w, s) ==
    onClose(IF "conn" \in w.lis[s] THEN emit(w, "error", NoItem) ELSE w, s)

\* reconnect() after its backoff sleep
awaitOpen(w) == [w EXCEPT !.lis[w.ws] = @ \cup {"rcwait"}, !.waiters = @ + 1]

\* reconnect() once "reconnecting" has been emitted
afterReconnecting(w) == IF w.skip THEN w ELSE awaitOpen(connect(w))

afterSleep(w) ==
    IF w.skip THEN [w EXCEPT !.sleepTimer = FALSE, !.sleepers = @ - 1]
    ELSE afterReconnecting(emit([w EXCEPT !.sleepTimer = FALSE, !.sleepers = @ - 1],
                                "reconnecting",
                                [NoItem EXCEPT !.idn = w.attempts]))

\* ------------------------------------------------------- Server ---------
\* server fields: state (readyState of each session's ws, "NONE" before the
\* connection event), sockets (keys of Server.sockets), tasks (suspended
\* _wsMessageHandler invocations, with their session), ev (events emitted
\* in the last step), out (frames written in the last step), rooms and
\* data (Socket.rooms and the keys of Socket.data of each session) and wss
\* ("open" while the WebSocketServer exists, "closing" while close() awaits
\* wss.close, "closed" once close() has completed), ret (the call of
\* application code made in the last step and the value it returned) and
\* versionCheck (options.jsonrpcVersionCheck);
\* silent (history: the ping intervals that have passed since the session
\* connected; the server has no pong listener, so none is ever answered)
Rooms == {"lobby"}
DataKeys == {"user"}

InitServer ==
    [state |-> [s \in Socks |-> "NONE"], sockets |-> {}, tasks |-> << >>,
     ev |-> << >>, out |-> << >>,
     rooms |-> [s \in Socks |-> {}], data |-> [s \in Socks |-> {}],
     wss |-> "open",
     versionCheck |-> serverVersionCheck,
     silent |-> [s \in Socks |-> 0],
     ret |-> [op |-> "none", sock |-> 0, room |-> "", val |-> FALSE, err |-> ""]]

Returned(op, s, room, val) ==
    [op |-> op, sock |-> s, room |-> room, val |-> val, err |-> ""]
NoReturn == Returned("none", 0, "", FALSE)
\* the call threw, or the promise it returned is rejected, with err
Failed(op, err) == [Returned(op, 0, "", FALSE) EXCEPT !.err = err]

FreshS(sv) == [sv EXCEPT !.ev = << >>, !.out = << >>, !.ret = NoReturn]

emitS(sv, name, s) == [sv EXCEPT !.ev = Append(@, Event(name, [NoItem EXCEPT !.idn = s]))]

\* Socket.send: only when the ws is OPEN
Socket_send(sv, s, frame) ==
    IF sv.state[s] = "OPEN" THEN [sv EXCEPT !.out = Append(@, << s, frame >>)] ELSE sv

\* Socket.notify
Socket_notify(sv, s, method, params) ==
    Socket_send(sv, s, Frame("single", << Stringify(Notification(method, params)) >>))

\* wss.on("connection"): the session is created and entered in the table
onConnection(sv, s) ==
    emitS([sv EXCEPT !.state[s] = "OPEN", !.sockets = @ \cup {s}], "connection", s)

\* a faulty close listener: the session stays in the table
onWsCloseKeepsKey(sv, s) ==
    emitS([sv EXCEPT !.state[s] = "CLOSED"], "close", s)

\* ws.once("close"): the session leaves the table
onWsClose(sv, s) ==
    emitS([sv EXCEPT !.state[s] = "CLOSED", !.sockets = @ \ {s}], "close", s)

\* a faulty joinTo: it reports true whether or not the room was joined before
joinAlwaysTrue(sv, s, room) ==
    [sv EXCEPT !.rooms[s] = @ \cup {room}, !.ret = Returned("joinTo", s, room, TRUE)]

\* Socket.joinTo: true iff the room was added
Socket_joinTo(sv, s, room) ==
    IF room \notin sv.rooms[s]
    THEN [sv EXCEPT !.rooms[s] = @ \cup {room}, !.ret = Returned("joinTo", s, room, TRUE)]
    ELSE [sv EXCEPT !.ret = Returned("joinTo", s, room, FALSE)]

\* Socket.leaveFrom: true iff the room was removed
Socket_leaveFrom(sv, s, room) ==
    IF room \in sv.rooms[s]
    THEN [sv EXCEPT !.rooms[s] = @ \ {room}, !.ret = Returned("leaveFrom", s, room, TRUE)]
    ELSE [sv EXCEPT !.ret = Returned("leaveFrom", s, room, FALSE)]

\* Socket.leaveFromAll
Socket_leaveFromAll(sv, s) == [sv EXCEPT !.rooms[s] = {}]

\* socket.data.set(key, value) by application code
Socket_dataSet(sv, s, key) == [sv EXCEPT !.data[s] = @ \cup {key}]

\* for (const socket of this.sockets.values()) socket.send(json), over the
\* sessions of to; a Map iterates in insertion order, the order of the ids
Lowest(S) == CHOOSE s \in S : \A t \in S : s <= t

RECURSIVE SendEach(_, _, _)
SendEach(sv, to, frame) ==
    IF to = {} THEN sv
    ELSE SendEach(Socket_send(sv, Lowest(to), frame), to \ {Lowest(to)}, frame)

\* Server.broadcast
Server_broadcast(sv, method, params) ==
    SendEach([sv EXCEPT !.ret = Returned("broadcast", 0, "", FALSE)], sv.sockets,
             Frame("single", << Stringify(Notification(method, params)) >>))

\* a faulty notifyTo: the room is not looked at
notifyToEveryone(sv, room, method, params) ==
    SendEach([sv EXCEPT !.ret = Returned("notifyTo", 0, room, FALSE)], sv.sockets,
             Frame("single", << Stringify(Notification(method, params)) >>))

\* Server.notifyTo
Server_notifyTo(sv, room, method, params) ==
    SendEach([sv EXCEPT !.ret = Returned("notifyTo", 0, room, FALSE)],
             { s \in sv.sockets : room \in sv.rooms[s] },
             Frame("single", << Stringify(Notification(method, params)) >>))

\* Socket.terminate, Socket.close: the ws is closing, its "close" comes later
Socket_terminate(sv, s) ==
    [sv EXCEPT !.state[s] = IF @ = "OPEN" THEN "CLOSING" ELSE @]

RECURSIVE TerminateEach(_, _)
TerminateEach(sv, to) ==
    IF to = {} THEN sv
    ELSE TerminateEach(Socket_terminate(sv, Lowest(to)), to \ {Lowest(to)})

\* Server.close up to its await: every session of the table is terminated
\* and wss.close is called; once close() has completed this.wss is deleted,
\* so this.wss.close throws a TypeError inside the promise executor and the
\* promise close() returns is rejected
Server_close(sv) ==
    IF sv.wss = "closed"
    THEN [TerminateEach(sv, sv.sockets) EXCEPT !.ret = Failed("close", "TypeError")]
    ELSE [TerminateEach(sv, sv.sockets) EXCEPT !.wss = "closing"]

\* Server.close after its await: the table is cleared, the promise resolves
Server_closed(sv) ==
    [sv EXCEPT !.wss = "closed", !.sockets = {}, !.ret = Returned("close", 0, "", TRUE)]

\* a faulty send path: the reply is written twice
repliesTwice(sv, s, frame) ==
    IF frame = NoFrame THEN sv ELSE Socket_send(Socket_send(sv, s, frame), s, frame)

serverReply(sv, s, frame) ==
    IF frame = NoFrame THEN sv ELSE Socket_send(sv, s, frame)

\* the server once _wsMessageHandler for session s has come to h
serverHandled(sv, s, i, h) ==
    serverReply([sv EXCEPT !.tasks = suspended(@, i, h, [sock |-> s, task |-> h.task])],
                s, h.reply)

\* ws.on("message", data => this._wsMessageHandler(socket, data))
serverMessage(sv, s, frame) ==
    serverHandled(sv, s, 0, handleMessage(sv.versionCheck, frame))

\* the handler awaited by the i-th suspended _wsMessageHandler returns or throws
serverResume(sv, i, outcome) ==
    serverHandled(sv, sv.tasks[i].sock, i,
                  resume(sv.versionCheck, sv.tasks[i].task, outcome))

\* ------------------------------------------------------- the wire -------
RECURSIVE FramesFor(_, _)
FramesFor(out, s) ==
    IF out = << >> THEN << >>
    ELSE IF Head(out)[1] = s THEN << Head(out)[2] >> \o FramesFor(Tail(out), s)
    ELSE FramesFor(Tail(out), s)

\* frames written reach the peer's queue while the peer's end is open; what is
\* in flight to an end that is no longer open is lost
Wire(q, out, w, sv, toServer) ==
    [s \in Socks |->
        IF (IF toServer THEN sv.state[s] ELSE w.state[s]) = "OPEN"
        THEN q[s] \o FramesFor(out, s) ELSE << >>]

\* history of a step that handled a frame ("server_message", "client_message")
\* or the end of a handler ("server_handler_done", "client_handler_done");
\* every other step leaves Other
\*   frame: the frame being handled   idx: the item whose handler ended
\*   st: how the step left the frame ("done", "await", "crash")
Op(name, s, frame, idx, outcome, st) ==
    [op |-> name, sock |-> s, frame |-> frame, idx |-> idx, outcome |-> outcome, st |-> st]
Other == Op("other", 0, NoFrame, 0, "", "")
FrameOf(task) == Frame(IF task.isArray THEN "batch" ELSE "single", task.items)

\* one step: the new client, the new server, the queues after what the step
\* consumed, and the name of the operation
Do(w, sv, qc, qs, op) ==
    /\ client' = IF hist THEN w ELSE Fresh(w)
    /\ server' = IF hist THEN sv ELSE FreshS(sv)
    /\ c2s' = Wire(qc, w.out, w, sv, TRUE)
    /\ s2c' = Wire(qs, sv.out, w, sv, FALSE)
    /\ last' = IF hist THEN op ELSE Other
    /\ UNCHANGED hist

ByClient(w, op) == Do(w, FreshS(server), c2s, s2c, op) /\ UNCHANGED << ops, injected >>
ByServer(sv, op) == Do(Fresh(client), sv, c2s, s2c, op) /\ UNCHANGED << ops, injected >>

\* a call application code makes
AppClient(w) ==
    /\ ops < MaxOps
    /\ ops' = ops + 1
    /\ Do(w, FreshS(server), c2s, s2c, Other)
    /\ UNCHANGED injected
AppServer(sv) ==
    /\ ops < MaxOps
    /\ ops' = ops + 1
    /\ Do(Fresh(client), sv, c2s, s2c, Other)
    /\ UNCHANGED injected

\* ------------------------------------------------------- actions --------
\* both endpoints constructed (autoConnect off), nothing connected yet
StartWith(c, sv, history) ==
    /\ client = c
    /\ server = sv
    /\ c2s = [s \in Socks |-> << >>]
    /\ s2c = [s \in Socks |-> << >>]
    /\ ops = 0
    /\ injected = << >>
    /\ last = Other
    /\ hist = history

Start(c, history) == StartWith(c, InitServer, history)

Init == \E r \in BOOLEAN : Start(InitClient(r), FALSE)

\* application code calls client.connect(); with _ws set it returns at once
Connect ==
    /\ client.ws = 0
    /\ client.n < MaxSock
    /\ AppClient(connect(Fresh(client)))

\* application code calls client.disconnect()
Disconnect ==
    AppClient(disconnect(Fresh(client)))

\* application code calls client.call(method)
Call ==
    \E m \in MethodNames : AppClient(call(Fresh(client), m))

\* the methodCallTimeout timer of call id fires
CallTimeout ==
    \E id \in client.timers :
        ByClient(callTimeout(Fresh(client), id), Other)

\* the server accepts the connection
ServerConnection ==
    \E s \in Socks :
        /\ server.wss = "open"
        /\ client.state[s] = "CONNECTING"
        /\ server.state[s] = "NONE"
        /\ ByServer(onConnection(FreshS(server), s), Other)

\* the client's ws emits "open"
ClientOpen ==
    \E s \in Socks :
        /\ client.state[s] = "CONNECTING"
        /\ server.state[s] # "NONE"
        /\ ByClient(onOpen(Fresh(client), s), Other)

\* the connection attempt fails: the client's ws emits "error", then "close"
ConnectFail ==
    \E s \in Socks :
        /\ client.state[s] = "CONNECTING"
        /\ server.state[s] = "NONE"
        /\ ByClient(onError(Fresh(client), s), Other)

\* the client's ws learns that the server end is closing
ClientPeerClose ==
    \E s \in Socks :
        /\ client.state[s] = "OPEN"
        /\ server.state[s] \in {"CLOSING", "CLOSED"}
        /\ ByClient([Fresh(client) EXCEPT !.state[s] = "CLOSING"],
                    Other)

\* the client's ws emits "close"
CloseEvent ==
    \E s \in Socks :
        /\ client.state[s] = "CLOSING"
        /\ ByClient(onClose(Fresh(client), s), Other)

\* the server's ws of a session emits "close"
ServerWsClose ==
    \E s \in Socks :
        /\ \/ server.state[s] = "CLOSING"
           \/ server.state[s] = "OPEN" /\ client.state[s] \in {"CLOSING", "CLOSED"}
        /\ ByServer(onWsClose(FreshS(server), s), Other)

\* application code calls socket.close() on a session
SessionClose ==
    \E s \in server.sockets :
        /\ server.state[s] = "OPEN"
        /\ AppServer([FreshS(server) EXCEPT !.state[s] = "CLOSING"])

\* the backoff sleep of reconnect() ends
SleepTimerFires ==
    /\ client.sleepers > 0
    /\ client.ws # 0 \/ client.n < MaxSock
    /\ ByClient(afterSleep(Fresh(client)), Other)

\* a frame reaches the server
ServerDeliver ==
    \E s \in Socks :
        /\ c2s[s] # << >>
        /\ server.state[s] = "OPEN"
        /\ Do(Fresh(client), serverMessage(FreshS(server), s, Head(c2s[s])),
              [c2s EXCEPT ![s] = Tail(@)], s2c,
              Op("server_message", s, Head(c2s[s]), 0, "",
                 handleMessage(server.versionCheck, Head(c2s[s])).st))
        /\ UNCHANGED << ops, injected >>

\* a handler the server awaits returns or throws
ServerHandlerDone ==
    \E i \in 1..Len(server.tasks), o \in Outcomes :
        ByServer(serverResume(FreshS(server), i, o),
                 Op("server_handler_done", server.tasks[i].sock, FrameOf(server.tasks[i].task),
                    server.tasks[i].task.idx, o,
                    resume(server.versionCheck, server.tasks[i].task, o).st))

\* a frame reaches the client
ClientDeliver ==
    \E s \in Socks :
        /\ s2c[s] # << >>
        /\ client.state[s] = "OPEN"
        /\ Do(IF "conn" \in client.lis[s] THEN clientMessage(Fresh(client), Head(s2c[s]))
              ELSE Fresh(client),
              FreshS(server), c2s, [s2c EXCEPT ![s] = Tail(@)],
              Op("client_message", s, Head(s2c[s]), 0, "", handleMessage("client", Head(s2c[s])).st))
        /\ UNCHANGED << ops, injected >>

\* a handler the client awaits returns or throws
ClientHandlerDone ==
    \E i \in 1..Len(client.tasks), o \in Outcomes :
        ByClient(clientResume(Fresh(client), i, o),
                 Op("client_handler_done", client.ws, FrameOf(client.tasks[i]),
                    client.tasks[i].idx, o, resume("client", client.tasks[i], o).st))

\* ---------------------------------- frames application code injects -----
R1 == Request("myMethod", "obj", "str", 1)
R2 == Request("other", "obj", "str", 2)
R3 == Request("myMethod", "arr", "str", 3)
N1 == Notification("myMethod", "obj")
N2 == Notification("other", "obj")

\* what application code passes to Client.send
ClientRawFrames ==
    { Frame("garbage", << >>), Frame("batch", << >>), Frame("single", << Blank >>),
      Frame("single", << R1 >>), Frame("batch", << R1 >>),
      Frame("batch", << R1, N1, R2 >>), Frame("batch", << R1, R3 >>),
      Frame("batch", << N1, N1 >>), Frame("batch", << N2 >>), Frame("batch", << N1, N2 >>),
      Frame("batch", << Primitive("num"), R1 >>), Frame("batch", << R1, Primitive("null") >>) }

\* what application code passes to Socket.send
ServerRawFrames ==
    { Frame("garbage", << >>), Frame("batch", << >>),
      Frame("single", << R1 >>), Frame("batch", << N1, R1, N2 >>),
      Frame("batch", << R1, R3 >>), Frame("batch", << N1 >>),
      Frame("single", << SuccessResponse("obj", "null", 0) >>),
      Frame("single", << SuccessResponse("obj", "str", 1) >>) }
    \cup { Frame("single", << ErrorResponse(c, errorCodeMap(c), "null", 0) >>) :
               c \in {ParseError, InvalidRequest, MethodNotFound, ServerError} }

Inject(by, frame) == injected' = Append(injected, [by |-> by, frame |-> frame])

\* application code calls client.notify(method, params?)
ClientNotify ==
    \E m \in MethodNames, p \in {"undef", "obj"} :
        LET f == Frame("single", << Stringify(Notification(m, p)) >>) IN
        /\ Len(injected) < MaxInject
        /\ client.ws # 0
        /\ Do(send(Fresh(client), f), FreshS(server), c2s, s2c, Other)
        /\ Inject("client.notify", f)
        /\ UNCHANGED ops

\* application code calls client.send(data)
ClientSendRaw ==
    \E f \in ClientRawFrames :
        /\ Len(injected) < MaxInject
        /\ client.ws # 0
        /\ Do(send(Fresh(client), f), FreshS(server), c2s, s2c, Other)
        /\ Inject("client.send", f)
        /\ UNCHANGED ops

\* application code calls socket.notify(method, params?) on a session
SessionNotify ==
    \E s \in server.sockets, m \in MethodNames, p \in {"undef", "obj"} :
        LET f == Frame("single", << Stringify(Notification(m, p)) >>) IN
        /\ Len(injected) < MaxInject
        /\ Do(Fresh(client), Socket_notify(FreshS(server), s, m, p), c2s, s2c, Other)
        /\ Inject("socket.notify", f)
        /\ UNCHANGED ops

\* application code calls socket.send(data) on a session
SessionSendRaw ==
    \E s \in server.sockets, f \in ServerRawFrames :
        /\ Len(injected) < MaxInject
        /\ Do(Fresh(client), Socket_send(FreshS(server), s, f), c2s, s2c, Other)
        /\ Inject("socket.send", f)
        /\ UNCHANGED ops

Next ==
    \/ Connect
    \/ Disconnect
    \/ Call
    \/ CallTimeout
    \/ ServerConnection
    \/ ClientOpen
    \/ ConnectFail
    \/ ClientPeerClose
    \/ CloseEvent
    \/ ServerWsClose
    \/ SessionClose
    \/ SleepTimerFires
    \/ ServerDeliver
    \/ ServerHandlerDone
    \/ ClientDeliver

Spec == Init /\ [][Next]_vars

\* the engines on one connection: application code injects frames, no call()
InitEngine == Start(InitClient(TRUE), TRUE)

NextEngine ==
    \/ Connect
    \/ ServerConnection
    \/ ClientOpen
    \/ ClientNotify
    \/ ClientSendRaw
    \/ SessionNotify
    \/ SessionSendRaw
    \/ ServerDeliver
    \/ ServerHandlerDone
    \/ ClientDeliver
    \/ ClientHandlerDone

SpecEngine == InitEngine /\ [][NextEngine]_vars

\* frames of any sort handed to either peer, and the replies they set off
ChainFrames ==
    { Frame("garbage", << >>), Frame("batch", << >>), Frame("single", << Blank >>),
      Frame("single", << Primitive("num") >>),
      Frame("single", << R1 >>), Frame("single", << R2 >>),
      Frame("single", << N1 >>), Frame("single", << N2 >>),
      Frame("single", << Request("myMethod", "obj", "null", 0) >>),
      Frame("single", << Request("other", "obj", "null", 0) >>),
      Frame("single", << SuccessResponse("obj", "str", 1) >>),
      Frame("single", << SuccessResponse("obj", "null", 0) >>),
      Frame("single", << ErrorResponse(MethodNotFound, errorCodeMap(MethodNotFound), "str", 1) >>),
      Frame("single", << ErrorResponse(MethodNotFound, errorCodeMap(MethodNotFound), "null", 0) >>),
      Frame("single", << ErrorResponse(InvalidRequest, errorCodeMap(InvalidRequest), "null", 0) >>),
      Frame("batch", << R1, SuccessResponse("obj", "null", 0) >>) }

\* application code calls client.send(data)
ClientSendAny ==
    \E f \in ChainFrames :
        /\ Len(injected) < MaxInject
        /\ client.ws # 0
        /\ Do(send(Fresh(client), f), FreshS(server), c2s, s2c, Other)
        /\ Inject("client.send", f)
        /\ UNCHANGED ops

\* application code calls socket.send(data) on a session
SessionSendAny ==
    \E s \in server.sockets, f \in ChainFrames :
        /\ Len(injected) < MaxInject
        /\ Do(Fresh(client), Socket_send(FreshS(server), s, f), c2s, s2c, Other)
        /\ Inject("socket.send", f)
        /\ UNCHANGED ops

NextChain ==
    \/ Connect
    \/ ServerConnection
    \/ ClientOpen
    \/ ClientSendAny
    \/ SessionSendAny
    \/ ServerDeliver
    \/ ServerHandlerDone
    \/ ClientDeliver
    \/ ClientHandlerDone

SpecChain == InitEngine /\ [][NextChain]_vars

\* connections made and ended, with the events of the transport and the
\* backoff timer bound to occur: a ws that is closing emits "close", a timer
\* that is set fires
NextDisconnect ==
    \/ Connect
    \/ Disconnect
    \/ ServerConnection
    \/ ClientOpen
    \/ ConnectFail
    \/ ClientPeerClose
    \/ CloseEvent
    \/ ServerWsClose
    \/ SessionClose
    \/ SleepTimerFires

SpecDisconnect ==
    Init /\ [][NextDisconnect]_vars /\ WF_vars(CloseEvent) /\ WF_vars(SleepTimerFires)

\* the server's version check: the Server is constructed with any of the
\* three modes and the client sends envelopes with jsonrpc "2.0", with
\* another value and with none
VERSION_CHECK_MODE == {"STRICT", "LOOSE", "IGNORE"}
Versions == {"2.0", "1.0", "absent"}

\* new Server({ jsonrpcVersionCheck: mode })
ServerWith(mode) == [InitServer EXCEPT !.versionCheck = mode]

WithVersion(item, v) == [item EXCEPT !.ver = v]

VersionFrames ==
    { Frame("single", << WithVersion(it, v) >>) :
          it \in {Blank, R1, N1, N2, SuccessResponse("obj", "str", 1)}, v \in Versions }
    \cup { Frame("batch", << WithVersion(R1, v), R2 >>) : v \in Versions }
    \cup { Frame("batch", << N2, WithVersion(Blank, v) >>) : v \in Versions }

\* application code calls client.send(data) with an envelope of any version
ClientSendVersion ==
    \E f \in VersionFrames :
        /\ Len(injected) < MaxInject
        /\ client.ws # 0
        /\ Do(send(Fresh(client), f), FreshS(server), c2s, s2c, Other)
        /\ Inject("client.send", f)
        /\ UNCHANGED ops

InitVersion ==
    \E mode \in VERSION_CHECK_MODE : StartWith(InitClient(FALSE), ServerWith(mode), TRUE)

NextVersion ==
    \/ Connect
    \/ ServerConnection
    \/ ClientOpen
    \/ ClientSendVersion
    \/ ServerDeliver
    \/ ServerHandlerDone
    \/ ClientDeliver

SpecVersion == InitVersion /\ [][NextVersion]_vars

\* the client's lifecycle with the events of each step kept
InitLife == \E r \in BOOLEAN : Start(InitClient(r), TRUE)

SpecLife == InitLife /\ [][Next]_vars

\* ------------------------------------------- the server's sessions ------
\* application code calls socket.joinTo(room) or socket.leaveFrom(room); the
\* rooms are finitely many, so these calls need no budget
SessionJoin ==
    \E s \in server.sockets, r \in Rooms :
        ByServer(Socket_joinTo(FreshS(server), s, r), Other)

SessionLeave ==
    \E s \in server.sockets, r \in Rooms :
        ByServer(Socket_leaveFrom(FreshS(server), s, r), Other)

\* application code stores a value in socket.data
SessionDataSet ==
    \E s \in server.sockets, k \in DataKeys :
        /\ k \notin server.data[s]
        /\ ByServer(Socket_dataSet(FreshS(server), s, k), Other)

\* the server's notifications are made while fewer than MaxInFlight frames
\* are on their way to the client, or being handled by it, on any connection
CanNotify == \A s \in Socks : Len(s2c[s]) + Len(client.tasks) < MaxInFlight

\* application code calls notify() on a session it kept a reference to,
\* whether or not the session is still in the table
HeldSessionNotify ==
    \E s \in Socks, m \in serverMethods :
        /\ server.state[s] # "NONE"
        /\ CanNotify
        /\ ByServer(Socket_notify(FreshS(server), s, m, "obj"), Other)

\* application code calls server.broadcast or server.notifyTo
Broadcast ==
    \E m \in serverMethods :
        /\ CanNotify
        /\ ByServer(Server_broadcast(FreshS(server), m, "obj"), Other)

NotifyTo ==
    \E r \in Rooms, m \in serverMethods :
        /\ CanNotify
        /\ ByServer(Server_notifyTo(FreshS(server), r, m, "obj"), Other)

\* application code calls server.close()
ServerClose ==
    /\ server.wss \in {"open", "closed"}
    /\ ByServer(Server_close(FreshS(server)), Other)

\* the callback of wss.close: close() resumes and completes
ServerClosed ==
    /\ server.wss = "closing"
    /\ ByServer(Server_closed(FreshS(server)), Other)

\* a ping interval passes: open() (server.ts:77-108) has started no timer, so
\* the server does nothing; only the time of its open sessions moves on
intervalPasses(sv) ==
    [sv EXCEPT !.silent = [s \in Socks |->
                              IF s \in sv.sockets /\ sv.state[s] = "OPEN" /\ @[s] < MaxTicks
                              THEN @[s] + 1 ELSE @[s]]]

PingInterval ==
    /\ \E s \in server.sockets : server.state[s] = "OPEN" /\ server.silent[s] < MaxTicks
    /\ ByServer(intervalPasses(FreshS(server)), Other)

\* the sessions of a server while time passes
NextHeartbeat ==
    \/ Connect
    \/ Disconnect
    \/ ServerConnection
    \/ ClientOpen
    \/ ConnectFail
    \/ ClientPeerClose
    \/ CloseEvent
    \/ ServerWsClose
    \/ SessionClose
    \/ PingInterval

SpecHeartbeat == Start(InitClient(FALSE), TRUE) /\ [][NextHeartbeat]_vars

\* the sessions of a server: connections made and closed from either end,
\* rooms, data, notifications, and the server's own close()
InitServerSpec == Start(InitClient(FALSE), TRUE)

NextServer ==
    \/ Connect
    \/ Disconnect
    \/ ServerConnection
    \/ ClientOpen
    \/ ConnectFail
    \/ ClientPeerClose
    \/ CloseEvent
    \/ ServerWsClose
    \/ SessionClose
    \/ SessionJoin
    \/ SessionLeave
    \/ SessionDataSet
    \/ HeldSessionNotify
    \/ Broadcast
    \/ NotifyTo
    \/ ServerClose
    \/ ServerClosed
    \/ ClientDeliver
    \/ ClientHandlerDone

SpecServer == InitServerSpec /\ [][NextServer]_vars

\* the events of the Client's lifecycle
ListenerEvents ==
    {"connecting", "connected", "close", "disconnect", "error",
     "reconnecting", "reconnect_error", "reconnected", "reconnect_failed"}

\* application code has added to one event a listener that calls disconnect()
InitListener ==
    \E r \in BOOLEAN, e \in ListenerEvents :
        Start([InitClient(r) EXCEPT !.dlis = e], FALSE)

SpecListener == InitListener /\ [][Next]_vars

\* ======================================================== claims ========
\* ------------------------------------------------------------- C1 -------
\* connection s is idle: both ends open, nothing in flight, no handler awaited
Quiet(s) ==
    /\ client.state[s] = "OPEN" /\ server.state[s] = "OPEN"
    /\ c2s[s] = << >> /\ s2c[s] = << >>
    /\ client.tasks = << >>
    /\ \A i \in 1..Len(server.tasks) : server.tasks[i].sock # s

\* C1: a request call() wrote to an open connection is answered with exactly
\* one response carrying its id: never two, and never none once the
\* connection, still open, has nothing more in flight and no handler running
C1_ExactlyOneResponse ==
    \A id \in CallIds :
        /\ client.got[id] <= 1
        /\ (client.sentOn[id] # 0 /\ Quiet(client.sentOn[id])) => client.got[id] = 1

\* two calls answered on a connection that is idle again, one with a result
\* and one with an error
C1_Witness ==
    \E id, j \in CallIds :
        /\ client.sentOn[id] # 0 /\ Quiet(client.sentOn[id])
        /\ client.sentOn[j] = client.sentOn[id]
        /\ client.got[id] = 1 /\ client.future[id].st = "resolved"
        /\ client.got[j] = 1 /\ client.future[j].st = "rejected"

\* ------------------------------------------------------------- C8 -------
\* the step delivers to the client, on connection s, a frame made of one
\* response with the numeric id of a pending call
DeliversResponseTo(s, id) ==
    /\ client.state[s] = "OPEN" /\ client'.state[s] = "OPEN"
    /\ "conn" \in client.lis[s]
    /\ s2c[s] # << >> /\ s2c'[s] = Tail(s2c[s])
    /\ Head(s2c[s]).kind = "single"
    /\ isResponse(Head(s2c[s]).items[1])
    /\ Head(s2c[s]).items[1].idk = "num" /\ Head(s2c[s]).items[1].idn = id
    /\ id \in client.handlers

\* what the caller of the call answered by response is to see
Completion(response) ==
    IF response.res # "absent" THEN Future("resolved", response.res, 0)
    ELSE Future("rejected", response.errk, response.errc)

\* C8: a response with the numeric id of a pending call cancels that call's
\* timer, removes its entry, resolves its future with the result when the
\* response carries one and rejects it with the error otherwise, and leaves
\* every other pending call alone
C8_MatchingResponse ==
    [][\A s \in Socks, id \in CallIds :
          DeliversResponseTo(s, id) =>
              /\ client'.timers = client.timers \ {id}
              /\ client'.handlers = client.handlers \ {id}
              /\ client.future[id].st = "pending"
              /\ client'.future[id] = Completion(Head(s2c[s]).items[1])
              /\ \A j \in CallIds \ {id} : client'.future[j] = client.future[j]]_vars

\* a call rejected with -32601 while another call is still pending
C8_Witness ==
    \E id, j \in CallIds :
        /\ client.future[id] = Future("rejected", "obj", MethodNotFound)
        /\ client.future[j].st = "pending"
        /\ j \in client.handlers /\ j \in client.timers

\* ------------------------------------------------------------- C9 -------
\* C9: when the timer of a call fires before its response, that call's future
\* is rejected with "method call timeout" and its entry removed; every other
\* call, the connection and the reconnection state stay as they were
C9_TimeoutRejectsOnlyThatCall ==
    [][\A id \in CallIds :
          (client.future[id].st = "pending" /\ client'.future[id].st = "timeout") =>
              /\ client'.handlers = client.handlers \ {id}
              /\ client'.timers = client.timers \ {id}
              /\ \A j \in CallIds \ {id} : client'.future[j] = client.future[j]
              /\ client'.ws = client.ws /\ client'.state = client.state
              /\ client'.lis = client.lis /\ client'.reconnecting = client.reconnecting
              /\ client'.skip = client.skip /\ client'.attempts = client.attempts
              /\ client'.sleepTimer = client.sleepTimer /\ client'.tasks = client.tasks
              /\ server' = server /\ c2s' = c2s /\ s2c' = s2c]_vars

\* a call timed out on an open connection while another call is still pending
C9_Witness ==
    \E id, j \in CallIds :
        /\ client.future[id].st = "timeout"
        /\ client.future[j].st = "pending" /\ j \in client.handlers /\ j \in client.timers
        /\ client.ws # 0 /\ client.state[client.ws] = "OPEN"

\* ------------------------------------------------------------ C10 -------
\* the client has no socket and no reconnection cycle in progress
Closed == client.ws = 0 /\ ~client.reconnecting /\ ~client.sleepTimer

\* C10: whenever the client is Closed no call is pending: every timer is
\* cancelled, every future rejected and the pending table empty
C10_ClosedRejectsPending ==
    Closed =>
        /\ client.handlers = {}
        /\ client.timers = {}
        /\ \A id \in CallIds : client.future[id].st # "pending"

\* ------------------------------------------ the last step of an engine --
\* the last step handled a frame or the end of a handler
EngineStep ==
    last.op \in {"server_message", "client_message",
                 "server_handler_done", "client_handler_done"}
AtServer == last.op \in {"server_message", "server_handler_done"}
Side == IF AtServer THEN server.versionCheck ELSE "client"
\* the items of the frame being handled, and the frames the step wrote
Items == last.frame.items
Written == IF AtServer THEN server.out ELSE client.out

\* a JSON object with no id member
IsNotification(item) == item.t = "obj" /\ item.idk = "absent"

\* the call names a registered method and is well-formed for the endpoint:
\* the server wants jsonrpc "2.0" and params, the client checks neither the
\* version nor the presence of params
Validates(side, item) ==
    IF side # "client"
    THEN item.ver = "2.0" /\ item.method \in serverMethods /\ item.params \in {"obj", "arr"}
    ELSE item.method \in clientMethods /\ item.params \in {"absent", "obj", "arr"}

\* an element of a frame written in the step answers item i
Answers(i) ==
    \E k \in 1..Len(Written) : \E j \in 1..Len(Written[k][2].items) :
        Written[k][2].items[j].src = i

\* every element written for item i is an error response with id null
AnsweredByIdNullError(i) ==
    \A k \in 1..Len(Written) : \A j \in 1..Len(Written[k][2].items) :
        Written[k][2].items[j].src = i =>
            /\ Written[k][2].items[j].idk = "null"
            /\ Written[k][2].items[j].errk = "obj"
            /\ Written[k][2].items[j].res = "absent"

Emitted(evs, name, code) ==
    \E k \in 1..Len(evs) : evs[k].name = name /\ evs[k].item.errc = code
EmittedAny(evs, name) == \E k \in 1..Len(evs) : evs[k].name = name

C3_NotificationErrorAtServer ==
    (/\ Len(injected) = 1
     /\ injected[1].by = "socket.notify"
     /\ injected[1].frame.items[1].method \notin clientMethods
     /\ last.op = "server_message")
        => Emitted(server.ev, "notification_error", MethodNotFound)

\* ------------------------------------------------------------- C4 -------
\* C4: once the client has handled the server's answer to client.notify(m)
\* without params, m not registered at the server, the client has emitted
\* notification_error with code -32601
C4_NotificationErrorAtClient ==
    (/\ Len(injected) = 1
     /\ injected[1].by = "client.notify"
     /\ injected[1].frame.items[1].method \notin serverMethods
     /\ injected[1].frame.items[1].params = "absent"
     /\ last.op = "client_message")
        => Emitted(client.ev, "notification_error", MethodNotFound)

\* ------------------------------------------------------------- C5 -------
\* an error response with id null
IdNullError(item) == item.t = "obj" /\ item.idk = "null" /\ item.errk = "obj"

Increasing(elements) ==
    \A k \in 2..Len(elements) : elements[k - 1].src < elements[k].src

\* the responses gathered by a suspended invocation answer, in order, items
\* that come before the one whose handler is awaited
InOrderSoFar(task) ==
    /\ Increasing(task.responses)
    /\ \A k \in 1..Len(task.responses) : task.responses[k].src < task.idx

\* each element of a written frame carries the id of the item it answers
\* (null when the item has none)
CarriesItsId(frame) ==
    \A j \in 1..Len(frame.items) :
        /\ frame.items[j].src \in 1..Len(Items)
        /\ frame.items[j].idk = NewRes(Items[frame.items[j].src]).idk
        /\ frame.items[j].idn = NewRes(Items[frame.items[j].src]).idn

\* items one at a time, reply elements in the order of their items
SequentialInOrder ==
    /\ \A i \in 1..Len(server.tasks) : InOrderSoFar(server.tasks[i].task)
    /\ \A i \in 1..Len(client.tasks) : InOrderSoFar(client.tasks[i])
    /\ (EngineStep /\ last.frame.kind = "batch" /\ Items # << >>) =>
          \A k \in 1..Len(Written) :
              Increasing(Written[k][2].items) /\ CarriesItsId(Written[k][2])

\* C6 as stated: the items of a batch are handled one after the other, the
\* elements of the reply come in the order of the items they answer, and no
\* element answers a notification
C6_NotificationsContributeNothing ==
    /\ SequentialInOrder
    /\ (EngineStep /\ last.frame.kind = "batch") =>
          \A i \in 1..Len(Items) : IsNotification(Items[i]) => ~Answers(i)

\* C6 amended: the items of a batch are handled one after the other and the
\* elements of the reply come in the order of the items they answer; a
\* notification whose handler is invoked contributes no element, one that
\* fails validation contributes an error response with id null
C6_BatchOrder ==
    /\ SequentialInOrder
    /\ (EngineStep /\ last.frame.kind = "batch") =>
          \A i \in 1..Len(Items) :
              IsNotification(Items[i]) =>
                  /\ Validates(Side, Items[i]) => ~Answers(i)
                  /\ Answers(i) => AnsweredByIdNullError(i)
                  /\ (last.st = "done" /\ ~Validates(Side, Items[i])) => Answers(i)

\* the batch [request, notification, request] has been answered by the server
\* with two elements, for items 1 and 3
C6_Witness ==
    /\ last.op = "server_handler_done" /\ last.st = "done"
    /\ last.frame = Frame("batch", << R1, N1, R2 >>)
    /\ Len(server.out) = 1
    /\ Len(server.out[1][2].items) = 2
    /\ server.out[1][2].items[1].src = 1
    /\ server.out[1][2].items[2].src = 3

\* ------------------------------------------------------------- C7 -------
\* the engine of side answers the item: a notification when it fails
\* validation; any other item, except that the MessageHandler takes a
\* response (with an id, or an error response with id null) without answering
Produces(side, item) ==
    IF IsNotification(item) THEN ~Validates(side, item)
    ELSE \/ side # "client"
         \/ item.t # "obj"
         \/ ~isResponse(item)
         \/ (item.idk = "null" /\ item.errk # "obj")

\* the step has finished with a non-empty batch
BatchFinished ==
    /\ EngineStep
    /\ last.frame.kind = "batch" /\ Items # << >>
    /\ last.st \in {"done", "crash"}

\* a reply is an array exactly when the frame it answers is a batch
ArrayIffBatch ==
    (EngineStep /\ Items # << >>) =>
        \A k \in 1..Len(Written) : Written[k][2].kind = last.frame.kind

\* C7 as stated: a non-empty batch is answered iff one of its items that is
\* not a notification produced a response, with an array; a batch of
\* notifications only is not answered
C7_ReplyIffNonNotification ==
    /\ BatchFinished =>
          (Written # << >>) <=>
              \E i \in 1..Len(Items) :
                  ~IsNotification(Items[i]) /\ Produces(Side, Items[i])
    /\ ArrayIffBatch

\* C7 amended: a non-empty batch is answered iff every item was processed (an
\* item that is JSON null ends the processing of the frame with no reply) and
\* one of them produced a response: an item that is not a notification, or a
\* notification that failed validation; the reply is an array exactly when the
\* frame is a batch
C7_ReplyIffResponse ==
    /\ BatchFinished =>
          (Written # << >>) <=>
              (last.st = "done" /\ \E i \in 1..Len(Items) : Produces(Side, Items[i]))
    /\ ArrayIffBatch

\* a batch of one request has been answered with an array of one element
C7_Witness ==
    /\ BatchFinished /\ last.st = "done"
    /\ last.frame = Frame("batch", << R1 >>)
    /\ Len(Written) = 1
    /\ Written[1][2].kind = "batch"
    /\ Len(Written[1][2].items) = 1

\* ------------------------------------------------------------ C11 -------
\* call id was issued while the client had no open socket
IssuedNotOpen(id) == client.future[id].st # "none" /\ client.sentOn[id] = 0

\* C11: a call issued while the client is not Open is not written to any
\* socket and its future is rejected, at once, with a "rejected" error
C11_NotOpenCallRejected ==
    \A id \in CallIds :
        IssuedNotOpen(id) =>
            /\ client.got[id] = 0
            /\ client.future[id].st = "rejected"
            /\ client.future[id].val = "rejected"

\* ------------------------------------------------------------ C12 -------
\* C12: a call issued while the client is not Open is kept and written once
\* the client is Open: when the connection is open and idle again the call
\* has been answered by the server
C12_BufferedCallCompletes ==
    \A id \in CallIds :
        (/\ IssuedNotOpen(id)
         /\ client.future[id].st # "threw"
         /\ client.ws # 0
         /\ Quiet(client.ws)) => client.got[id] = 1

\* ------------------------------------------------------------ C13 -------
\* the ids call() has issued so far are 0 .. reqId - 1
IssuedIds == { id \in CallIds : client.future[id].st # "none" }

\* C13: call() issues the ids 0, 1, 2, ... in this order, each once, whatever
\* happens in between; no entry of the pending table is ever overwritten
C13_RequestIdsIncrease ==
    [][/\ IssuedIds = { id \in CallIds : id < client.reqId }
       /\ client.handlers \subseteq IssuedIds
       /\ client'.reqId \in {client.reqId, client.reqId + 1}
       /\ \A id \in CallIds :
             (client.future[id].st = "none" /\ client'.future[id].st # "none") =>
                 /\ id = client.reqId
                 /\ client'.reqId = id + 1
                 /\ id \notin client.handlers /\ id \notin client.timers
       /\ \A id \in CallIds :
             client.future[id].st # "none" => client'.future[id].st # "none"]_vars

\* two ids issued: the call with id 0 has timed out, the call with id 1 is pending
C13_Witness ==
    /\ client.reqId = 2
    /\ client.future[0].st = "timeout"
    /\ client.future[1].st = "pending"
    /\ 1 \in client.handlers


\* ------------------------------------------------ C14 --------------------
\* C14: once disconnect() has been invoked, and until connect() is called
\* again, the client holds no socket, no backoff sleep is pending and no
\* reconnection is in progress: no new connection is opened, whether
\* disconnect() arrived while Open, while Connecting, during the backoff
\* sleep or from inside an event listener.
C14_NoConnectionAfterDisconnect ==
    client.disc > 0 =>
        /\ client.ws = 0
        /\ ~client.sleepTimer
        /\ ~client.reconnecting


\* ------------------------------------------------ C15 --------------------
\* what disconnect() is said to leave alone the second time: the socket
\* handle, the pending table, the reconnection flags and sleep timer, and the
\* backoff attempt counter
Handle(w) == << w.ws, w.handlers, w.reconnecting, w.skip, w.sleepTimer, w.attempts >>

\* C15: disconnect() is idempotent: an invocation that follows another one,
\* with no connect() in between and in whatever state the client then is,
\* leaves the socket handle, the pending table, the reconnection flags and the
\* backoff attempt counter as the first invocation left them, and so would a
\* further one (disconnect() has no throwing path).
C15_DisconnectIdempotent ==
    [][(client.disc >= 1 /\ client'.disc > client.disc) =>
            /\ Handle(client') = Handle(client)
            /\ Handle(disconnect(client')) = Handle(client')]_vars

\* disconnect() has been invoked a second time while the socket of the first
\* connection, open at the server, is still closing
C15_Witness ==
    /\ client.disc = 2
    /\ client.n = 1
    /\ client.state[1] = "CLOSING"
    /\ server.state[1] = "OPEN"


\* ------------------------------------------------ C16 --------------------
\* the client holds a socket that is open, or closing after having been open
\* (a socket the client still holds only closes from OPEN)
Up(w) == w.ws # 0 /\ w.state[w.ws] \in {"OPEN", "CLOSING"}

ClosedEvents(w) == EmittedAny(w.ev, "close") /\ EmittedAny(w.ev, "disconnect")

\* C16: the step that takes the client from Open to Closed, by disconnect()
\* or by a transport close with reconnection disabled, emits "disconnect" and
\* "close".
C16_OpenToClosedEmits ==
    [][(Up(client) /\ Closed') => ClosedEvents(client')]_vars

\* C16 for the transport close alone: a step other than disconnect() that
\* takes the client from Open to Closed emits "disconnect" and "close".
C16_TransportCloseEmits ==
    [][(Up(client) /\ Closed' /\ client'.disc = client.disc) => ClosedEvents(client')]_vars


\* ------------------------------------------------ C17 --------------------
\* the step ended an attempt of reconnect() that failed
FailedAttempt == EmittedAny(client'.ev, "reconnect_error")
GivesUp == EmittedAny(client'.ev, "reconnect_failed")

\* C17: during reconnection the client gives up exactly when the backoff
\* attempt counter exceeds reconnectionAttempts: the step that gives up emits
\* "reconnect_failed" and leaves the client Closed with reconnection switched
\* off, so that no further attempt follows; a failed attempt made before that
\* point starts the backoff sleep of another attempt.
C17_GivesUpAfterAttempts ==
    [][/\ GivesUp =>
            /\ client.attempts > reconnectionAttempts
            /\ Closed' /\ client'.skip /\ client'.disc > 0
       /\ FailedAttempt =>
            IF client.attempts > reconnectionAttempts
            THEN GivesUp
            ELSE /\ ~GivesUp
                 /\ client'.reconnecting /\ client'.sleepTimer
                 /\ client'.attempts = client.attempts + 1]_vars

\* the client has just given up, after reconnectionAttempts + 1 attempts failed
C17_Witness ==
    /\ EmittedAny(client.ev, "reconnect_failed")
    /\ EmittedAny(client.ev, "reconnect_error")
    /\ client.n = reconnectionAttempts + 2
    /\ client.ws = 0 /\ ~client.sleepTimer


\* ------------------------------------------------ C18 --------------------
\* the last step emitted reconnected(n)
Reconnected(n) ==
    \E k \in 1..Len(client.ev) :
        client.ev[k].name = "reconnected" /\ client.ev[k].item.idn = n

Connected(s) == server.state[s] \in {"OPEN", "CLOSING"}

\* C19 as stated: at every point a session is in the table iff its transport
\* has connected and has not yet closed, and the table is empty once close()
\* has completed
C19_TableIffConnected ==
    /\ \A s \in Socks : s \in server.sockets <=> Connected(s)
    /\ server.wss = "closed" => server.sockets = {}

\* C19 amended: until close() has completed a session is in the table iff its
\* transport has connected and has not yet emitted its close event; once
\* close() has completed the table is empty, whether or not the transports
\* close() terminated have emitted their close event
C19_TableTracksTransports ==
    /\ \A s \in Socks : s \in server.sockets <=> (Connected(s) /\ server.wss # "closed")
    /\ server.wss = "closed" => server.sockets = {}

\* close() has completed and emptied the table while the first session,
\* closed before, is gone and the second, terminated by close(), has not yet
\* emitted its close event
C19_Witness ==
    /\ server.wss = "closed"
    /\ server.sockets = {}
    /\ server.state[1] = "CLOSED"
    /\ server.state[2] = "CLOSING"


\* ------------------------------------------------ C20 --------------------
\* the close event of session s's transport has been emitted
TransportClosed(s) == server.state[s] = "CLOSED"

\* the last step wrote a frame to session s
WroteTo(s) == \E k \in 1..Len(server.out) : server.out[k][1] = s

\* C20: once a session's transport has closed, the session's rooms and data
\* are empty and no send() or notify() on it, directly or through broadcast
\* or notifyTo, writes a frame.
C20_ClosedSessionEmptyAndSilent ==
    \A s \in Socks :
        TransportClosed(s) =>
            /\ server.rooms[s] = {}
            /\ server.data[s] = {}
            /\ ~WroteTo(s)

\* C20, the frames alone: no step writes a frame to a session whose
\* transport has closed
C20_ClosedSessionSilent ==
    \A s \in Socks : TransportClosed(s) => ~WroteTo(s)


\* ------------------------------------------------ C21 --------------------
\* the step was a call of op on a session, as the server's ret records it
Called(op) == server'.ret.op = op

\* nothing but the rooms of the session called changed: the rooms of every
\* other session and the session table are as before
OnlyRoomsOf(s) ==
    /\ \A t \in Socks \ {s} : server'.rooms[t] = server.rooms[t]
    /\ server'.sockets = server.sockets

\* C21: joinTo(r) returns true iff r was not yet among the session's rooms
\* and leaves r among them; leaveFrom(r) returns true iff r was among them
\* and leaves r out; a call that returns false leaves the membership as it
\* was, and so does a repetition of either call, which returns false; no call
\* changes the rooms of another session or the session table.
C21_RoomMembership ==
    [][/\ Called("joinTo") =>
            /\ server'.ret.val <=> (server'.ret.room \notin server.rooms[server'.ret.sock])
            /\ server'.rooms[server'.ret.sock] =
                    server.rooms[server'.ret.sock] \cup {server'.ret.room}
            /\ Socket_joinTo(server', server'.ret.sock, server'.ret.room).ret.val = FALSE
            /\ Socket_joinTo(server', server'.ret.sock, server'.ret.room).rooms = server'.rooms
            /\ OnlyRoomsOf(server'.ret.sock)
       /\ Called("leaveFrom") =>
            /\ server'.ret.val <=> (server'.ret.room \in server.rooms[server'.ret.sock])
            /\ server'.rooms[server'.ret.sock] =
                    server.rooms[server'.ret.sock] \ {server'.ret.room}
            /\ Socket_leaveFrom(server', server'.ret.sock, server'.ret.room).ret.val = FALSE
            /\ Socket_leaveFrom(server', server'.ret.sock, server'.ret.room).rooms = server'.rooms
            /\ OnlyRoomsOf(server'.ret.sock)]_vars

\* a second joinTo("lobby") on the second session has just returned false,
\* while the first session is in the table with rooms of its own
C21_Witness ==
    /\ server.ret = Returned("joinTo", 2, "lobby", FALSE)
    /\ server.rooms[2] = {"lobby"}
    /\ server.sockets = {1, 2}


\* ------------------------------------------------ C22 --------------------
\* the frames the last step wrote to session s
FramesTo(sv, s) == FramesFor(sv.out, s)

\* session s is in the table, its transport open, and it is a member of room
OpenMember(s, room) ==
    /\ s \in server.sockets
    /\ server.state[s] = "OPEN"
    /\ room \in server.rooms[s]

EveryoneIn(room) == \A s \in server.sockets : room \in server.rooms[s]

\* C22: notifyTo(r, m, p) writes the notification, once, to exactly the open
\* sessions of the table whose rooms contain r when it is called, and nothing
\* to any other session; when every session of the table is a member of r it
\* writes what broadcast(m, p) writes.
C22_NotifyToRoom ==
    [][Called("notifyTo") =>
          \A m \in serverMethods :
            /\ \A s \in Socks :
                  FramesTo(server', s) =
                    IF OpenMember(s, server'.ret.room)
                    THEN << Frame("single", << Stringify(Notification(m, "obj")) >>) >>
                    ELSE << >>
            /\ EveryoneIn(server'.ret.room) =>
                  server'.out = Server_broadcast(FreshS(server), m, "obj").out]_vars

\* notifyTo("lobby") has just written to the second session alone: the first
\* is open and in the table, but not a member
C22_Witness ==
    /\ server.ret.op = "notifyTo" /\ server.ret.room = "lobby"
    /\ server.sockets = {1, 2}
    /\ "lobby" \notin server.rooms[1] /\ server.state[1] = "OPEN"
    /\ "lobby" \in server.rooms[2] /\ server.state[2] = "OPEN"
    /\ WroteTo(2) /\ ~WroteTo(1)


\* ------------------------------------------------ C23 --------------------
\* C23: a session that has let one full heartbeat window pass without a pong
\* is terminated on the next tick: after two ping intervals without a pong
\* its transport is no longer open.
C23_SilentSessionTerminated ==
    \A s \in Socks : server.silent[s] >= 2 => server.state[s] # "OPEN"


\* ------------------------------------------------ C24 --------------------
\* C24: close() on a server that close() has already closed completes
\* without error and changes nothing: the session table stays empty, the
\* server closed, the sessions as they were.
C24_CloseIdempotent ==
    [][(server.wss = "closed" /\ Called("close")) =>
            /\ server'.ret.err = ""
            /\ server'.wss = "closed"
            /\ server'.sockets = {}
            /\ server'.state = server.state]_vars

\* C24, the first close(): when it completes every session it found in the
\* table has been terminated and the table is empty.
C24_CloseTerminatesAll ==
    server.ret = Returned("close", 0, "", TRUE) =>
        /\ server.sockets = {}
        /\ \A s \in Socks : server.state[s] # "OPEN"


\* ------------------------------------------------ C25 --------------------
\* the last step handled a frame as it arrived
MessageStep == last.op \in {"server_message", "client_message"}
NotJson == last.frame.kind = "garbage"
EmptyArray == last.frame.kind = "batch" /\ last.frame.items = << >>

\* the step wrote one frame, to the connection the frame came on: a single
\* error response with id null, the code and its standard message
OneIdNullError(code) ==
    /\ Len(Written) = 1
    /\ Written[1][1] = last.sock
    /\ Written[1][2].kind = "single"
    /\ Len(Written[1][2].items) = 1
    /\ Written[1][2].items[1].ver = "2.0"
    /\ Written[1][2].items[1].idk = "null"
    /\ Written[1][2].items[1].res = "absent"
    /\ Written[1][2].items[1].errk = "obj"
    /\ Written[1][2].items[1].errc = code
    /\ Written[1][2].items[1].errm = errorCodeMap(code)

\* no handler was invoked and the engine emitted no event
NothingElse ==
    /\ last.st = "done"
    /\ IF AtServer THEN server.ev = << >>
       ELSE client.mhEv = << >> /\ client.ev = << >>

\* C25: a frame that is not JSON is answered by exactly one reply, an error
\* response with code -32700 and id null; an empty array by exactly one
\* reply, a single error response with code -32600, data "Empty Array" and id
\* null; in both cases no handler is invoked and no event emitted.
C25_UnparseableFrames ==
    /\ (MessageStep /\ NotJson) => (OneIdNullError(ParseError) /\ NothingElse)
    /\ (MessageStep /\ EmptyArray) =>
          /\ OneIdNullError(InvalidRequest)
          /\ Written[1][2].items[1].errd = "Empty Array"
          /\ NothingElse

\* the client's MessageHandler has just answered an empty array
C25_Witness ==
    /\ last.op = "client_message" /\ EmptyArray
    /\ OneIdNullError(InvalidRequest)

\* ------------------------------------------------------------- C26 ------
\* the mode accepts an envelope whose jsonrpc member is v
VersionAccepted(mode, v) ==
    CASE mode = "STRICT" -> v = "2.0"
      [] mode = "LOOSE" -> v \in {"2.0", "absent"}
      [] mode = "IGNORE" -> TRUE

\* the elements written in the step for item i
AnswersTo(i) ==
    { <<k, j>> \in (1..Len(Written)) \X (1..2) :
          j <= Len(Written[k][2].items) /\ Written[k][2].items[j].src = i }

IsVersionError(e) ==
    /\ e.errk = "obj" /\ e.res = "absent"
    /\ e.errc = InvalidRequest
    /\ e.errd = "Invalid JSON-RPC Version"

\* C26: the Server checks the version of every object envelope before it
\* classifies it further: STRICT accepts only "2.0", LOOSE "2.0" or no
\* jsonrpc member, IGNORE anything; a rejected envelope is answered once, with
\* code -32600 and its own id (null when it has none), whatever else it
\* holds; an accepted envelope is never answered with the version error.
C26_VersionCheck ==
    (last.op = "server_message" /\ last.frame.kind \in {"single", "batch"}) =>
        \A i \in 1..Len(Items) :
            Items[i].t = "obj" =>
                IF VersionAccepted(server.versionCheck, Items[i].ver)
                THEN \A a \in AnswersTo(i) : ~IsVersionError(Written[a[1]][2].items[a[2]])
                ELSE /\ last.st = "done" => Cardinality(AnswersTo(i)) = 1
                     /\ \A a \in AnswersTo(i) :
                            /\ IsVersionError(Written[a[1]][2].items[a[2]])
                            /\ Written[a[1]][2].items[a[2]].idk =
                                   (IF Items[i].idk = "absent" THEN "null" ELSE Items[i].idk)
                            /\ Written[a[1]][2].items[a[2]].idn = Items[i].idn

\* a Server in its default mode has just answered the frame {} with code
\* -32600 and id null
C26_Witness ==
    /\ server.versionCheck = serverVersionCheck
    /\ last.op = "server_message"
    /\ last.frame = Frame("single", << Blank >>)
    /\ last.st = "done"
    /\ Len(Written) = 1
    /\ Written[1][2].kind = "single"
    /\ Written[1][2].items[1].errc = InvalidRequest
    /\ Written[1][2].items[1].idk = "null"

\* ------------------------------------------------------------- C27 ------
\* C27: every item that is not a JSON object (a number, a string, a boolean
\* or null, alone or in a batch) is answered with an error response with code
\* -32600 and id null, and the requests of the same frame are still answered.
C27_NonObjectAnswered ==
    (EngineStep /\ last.st \in {"done", "crash"}) =>
        \A i \in 1..Len(Items) :
            /\ Items[i].t # "obj" =>
                  /\ Cardinality(AnswersTo(i)) = 1
                  /\ AnsweredByIdNullError(i)
                  /\ \A a \in AnswersTo(i) :
                         Written[a[1]][2].items[a[2]].errc = InvalidRequest
            /\ (Items[i].t = "obj" /\ ~IsNotification(Items[i]) /\ ~isResponse(Items[i])) =>
                  Answers(i)

\* ------------------------------------------------------------- C28 ------
\* a Response envelope that carries an id other than null
IsIdResponse(item) == item.t = "obj" /\ isResponse(item) /\ item.idk # "null"

\* C28: an engine that takes a Response envelope with a non-null id writes no
\* frame in answer to it and emits the events response and method_response.
C28_NoReplyToResponse ==
    MessageStep =>
        \A i \in 1..Len(Items) :
            IsIdResponse(Items[i]) =>
                /\ ~Answers(i)
                /\ EmittedAny(IF AtServer THEN server.ev ELSE client.mhEv, "response")
                /\ EmittedAny(IF AtServer THEN server.ev ELSE client.mhEv, "method_response")

\* ------------------------------------------------------------- C29 ------
\* the last step ended a handler that returned, for a request
RequestReturned ==
    /\ last.op \in {"server_handler_done", "client_handler_done"}
    /\ last.outcome \in {"ret_obj", "ret_undef", "ret_zero"}
    /\ ~IsNotification(Items[last.idx])
    /\ last.st = "done"

\* value ?? null
NullIfAbsent(v) == IF v \in {"undef", "null"} THEN "null" ELSE v

\* C29: the response to a request whose handler returns carries the returned
\* value as its result, null when the handler returned undefined or null;
\* 0, false and "" are returned as they are.
C29_ResultIsReturnValue ==
    RequestReturned =>
        /\ Answers(last.idx)
        /\ \A a \in AnswersTo(last.idx) :
               Written[a[1]][2].items[a[2]].res = NullIfAbsent(Returned_value(last.outcome))

\* ------------------------------------------------------------- C30 ------
\* a call envelope with a good version that names a method registered at
\* the endpoint that takes it
RegisteredCall(item) ==
    /\ item.t = "obj" /\ ~isResponse(item)
    /\ item.ver = "2.0"
    /\ item.method \in (IF AtServer THEN serverMethods ELSE clientMethods)

\* the element is the reply of a failed validation
IsInvalidRequest(e) == e.errk = "obj" /\ e.errc = InvalidRequest

\* C30: a call is rejected for its params only when they are present and
\* neither an object nor an array: a call with no params, or with an array,
\* is not answered with InvalidRequest and reaches its handler, so that a
\* request is answered from the handler's outcome.
C30_ParamsOptional ==
    (EngineStep /\ last.st = "done") =>
        \A i \in 1..Len(Items) :
            (RegisteredCall(Items[i]) /\ Items[i].params \in {"absent", "arr"}) =>
                /\ \A a \in AnswersTo(i) : ~IsInvalidRequest(Written[a[1]][2].items[a[2]])
                /\ ~IsNotification(Items[i]) => Answers(i)

\* ------------------------------------------------------------- C31 ------
\* the frame holds a response with a string id, or with a numeric id for
\* which the table of response handlers has no entry
UnknownResponseIn(frame, handlers) ==
    \E i \in 1..Len(frame.items) :
        /\ IsIdResponse(frame.items[i])
        /\ frame.items[i].ver = "2.0"
        /\ \/ frame.items[i].idk = "str"
           \/ frame.items[i].idk = "num" /\ frame.items[i].idn \notin handlers

\* the step left every call, timer and table entry as it was
CallsUntouched ==
    /\ client'.handlers = client.handlers
    /\ client'.timers = client.timers
    /\ client'.future = client.future

\* C31: when the client takes a response whose id is a string, or a number
\* with no pending entry, it emits unknown_response and settles no future,
\* cancels no timer and leaves the pending table as it was.
C31_UnknownResponse ==
    [][(last'.op = "client_message" /\ hist
          /\ last'.frame.kind = "single"
          /\ UnknownResponseIn(last'.frame, client.handlers)) =>
              (EmittedAny(client'.ev, "unknown_response") /\ CallsUntouched)]_vars

\* ------------------------------------------------------------- C32 ------
\* the last step ended the handler of a request
RequestHandled ==
    /\ last.op \in {"server_handler_done", "client_handler_done"}
    /\ ~IsNotification(Items[last.idx])
    /\ last.st = "done"

HasResult(e) == e.res # "absent"
HasError(e) == e.errk # "absent"

\* C32: the response sent for a request holds exactly one of the members
\* result and error, whether the handler returns, throws an Error, throws a
\* JSON-RPC error object or throws anything else, undefined included.
C32_ResultXorError ==
    RequestHandled =>
        /\ Answers(last.idx)
        /\ \A a \in AnswersTo(last.idx) :
               HasResult(Written[a[1]][2].items[a[2]]) # HasError(Written[a[1]][2].items[a[2]])

\* ------------------------------------------------------------- C33 ------
Settled(f) == f.st \in {"resolved", "rejected", "timeout"}

\* a future that is settled stays as it was settled
SettledOnce ==
    \A id \in CallIds : Settled(client.future[id]) => client'.future[id] = client.future[id]

\* the table of response handlers holds an id iff that call is unsettled and
\* its timer is live
PendingIffLive ==
    \A id \in CallIds :
        id \in client.handlers <=>
            (client.future[id].st = "pending" /\ id \in client.timers)

\* C33: a future of call() is settled at most once, by its response or by
\* its timeout, and nothing settles it again; the pending table has an entry
\* for an id iff that call is still unsettled with a live timer.
C33_SettledOnce == [][SettledOnce /\ PendingIffLive']_vars

\* ------------------------------------------------------------- C34 ------
\* the sockets that are not closed and carry listeners of the client
Attached ==
    {s \in Socks : client.lis[s] # {} /\ client.state[s] \in {"CONNECTING", "OPEN", "CLOSING"}}

\* the reconnect() invocations in progress: asleep on a backoff timer, or
\* waiting for the open or close of the socket they connected
Cycles == client.sleepers + client.waiters

\* C34: whatever the order of connect(), disconnect(), the events of the
\* transport and the expiry of the backoff timer, at most one socket carries
\* the client's listeners, it is the one the client holds, and at most one
\* reconnection cycle is in progress.
C34_OneSocketOneCycle ==
    /\ Attached \subseteq {client.ws}
    /\ Cycles <= 1

\* ------------------------------------------------------------- C35 ------
\* C35: the promise disconnect() returns is resolved in the end: at once
\* when the client has no socket or its socket is closing or closed, and when
\* the socket has emitted "close" if it was connecting or open.
C35_DisconnectResolves ==
    \A s \in Socks : (s \in client.dwait) ~> (s \notin client.dwait)

\* ------------------------------------------------------------- C36 ------
\* the frames an engine may write once it has come to h, whatever the
\* handlers it waits for return or throw (NoFrame: it writes nothing)
RECURSIVE FinalReplies(_, _)
FinalReplies(side, h) ==
    IF h.st = "await"
    THEN UNION { FinalReplies(side, resume(side, h.task, o)) : o \in Outcomes }
    ELSE {h.reply}

PeerOf(side) == IF side = "client" THEN server.versionCheck ELSE "client"

\* the replies that the frame sets off when the engine of side takes it come
\* to an end after at most k frames
RECURSIVE ChainEnds(_, _, _)
ChainEnds(side, h, k) ==
    \A r \in FinalReplies(side, h) :
        r = NoFrame \/ (k > 0 /\ ChainEnds(PeerOf(side), handleMessage(PeerOf(side), r), k - 1))

Awaiting(task) == Handled("await", task, << >>, NoFrame)

\* C36: the two peers never answer each other endlessly: for every frame in
\* flight and every handler that is running, the chain of replies it sets
\* off between the peers ends after at most three frames, after which
\* neither peer writes anything.
C36_RepliesEnd ==
    /\ \A s \in Socks :
          /\ \A i \in 1..Len(c2s[s]) :
                 ChainEnds(server.versionCheck,
                           handleMessage(server.versionCheck, c2s[s][i]), 3)
          /\ \A i \in 1..Len(s2c[s]) :
                 ChainEnds("client", handleMessage("client", s2c[s][i]), 3)
    /\ \A i \in 1..Len(server.tasks) :
          ChainEnds(server.versionCheck, Awaiting(server.tasks[i].task), 3)
    /\ \A i \in 1..Len(client.tasks) :
          ChainEnds("client", Awaiting(client.tasks[i]), 3)

\* the server has answered a reply of the client, which was itself the
\* answer to a frame of the server, and the client sends nothing more: the
\* chain of three replies has come to its end
C36_Witness ==
    /\ c2s = [s \in Socks |-> << >>] /\ s2c = [s \in Socks |-> << >>]
    /\ client.tasks = << >> /\ server.tasks = << >>
    /\ Len(injected) = 1
    /\ ~ChainEnds(server.versionCheck,
                  handleMessage(server.versionCheck, injected[1].frame), 2)
    /\ injected[1].by = "client.send"
    /\ last.op = "client_message"
    /\ client.out = << >>

====
